---- MODULE Spec2Model ----
(***************************************************************************)
(* A model of github.com/amjadjibon/itertools: the Iterator type with its  *)
(* push protocol (seq, driven by the terminal operations) and its pull     *)
(* protocol (Next / Current / Close over iter.Pull), the single-sequence   *)
(* combinators and the source adapters.                                    *)
(*                                                                         *)
(* An iterator is described by a pipeline pl = [src, stages]: a source     *)
(* adapter and the combinators wrapped around it, innermost first.  One    *)
(* traversal threads a record t through the callbacks:                     *)
(*   t.s[k]     local variables of the closure of stage k (k <= N), and of *)
(*              the terminal consumer (k = N + 1)                          *)
(*   t.live[k]  callback k has not yet returned false in this traversal    *)
(*   t.late     some callback was invoked after it had returned false      *)
(*   t.fetched  elements obtained from the source                          *)
(*   t.calls    invocations of the source's generator function             *)
(*   t.hung     the traversal does not return (infinite source, fuel out)  *)
(***************************************************************************)
EXTENDS Integers, Sequences, FiniteSets, TLC

\* ------------------------------------------------------------------ bounds
MaxLen == 2
MaxStages == 2
MaxN == 2
MaxNeg == 1

\* element values: an odd and an even one
Vals == {1, 2}
Counts == 0..MaxN
\* steps of a source loop after which a traversal counts as not returning:
\* more than any combinator chain over an infinite source needs for the
\* MaxN + 1 elements a terminal operation asks for
Fuel == (MaxN + 2) * (2 ^ MaxStages) + MaxLen

Min(a, b) == IF a < b THEN a ELSE b

SlicesUpTo(n) == UNION {[1..m -> Vals] : m \in 0..n}
Slices == SlicesUpTo(MaxLen)

\* --------------------------------------------------- callbacks of the user
\* predicate of Filter / TakeWhile / DropWhile as the README examples use it
IsEven(v) == v % 2 = 0
\* transformation of Map
MapFn(v) == v * 2
\* the closure handed to Generate / FromFunc: counter++; return counter
GenVal(k) == k

\* key functions handed to Unique: the element itself / one key for all
KeyFuncs == {"self", "same"}
KeyOf(keyFunc, v) == IF keyFunc = "self" THEN v ELSE 0

\* ------------------------------------------------------------ source adapters
ToIter(slice) == [kind |-> "ToIter", slice |-> slice, inf |-> FALSE]
FromFunc(slice, inf) == [kind |-> "FromFunc", slice |-> slice, inf |-> inf]
FromChannel(slice) == [kind |-> "FromChannel", slice |-> slice, inf |-> FALSE]
Generate == [kind |-> "Generate", slice |-> << >>, inf |-> TRUE]
\* the seq Cycle returns: for { for _, v := range xs { yield(v) } }
Cycle(xs) == [kind |-> "Cycle", slice |-> xs, inf |-> TRUE]

\* the loop of the source neither yields nor returns: Cycle over no elements
Spins(src) == src.kind = "Cycle" /\ src.slice = << >>

\* the source has a pos-th element / that element
SrcHas(src, pos) == src.inf \/ pos <= Len(src.slice)
SrcAt(src, pos) ==
  IF src.kind = "Cycle" THEN src.slice[((pos - 1) % Len(src.slice)) + 1]
  ELSE IF src.inf THEN GenVal(pos) ELSE src.slice[pos]

\* ---------------------------------------------------------------- combinators
Filter == [op |-> "Filter", n |-> 0, other |-> << >>]
Map == [op |-> "Map", n |-> 0, other |-> << >>]
Chain(other) == [op |-> "Chain", n |-> 0, other |-> other]
Take(n) == [op |-> "Take", n |-> IF n < 0 THEN 0 ELSE n, other |-> << >>]
Drop(n) == [op |-> "Drop", n |-> IF n < 0 THEN 0 ELSE n, other |-> << >>]
TakeWhile == [op |-> "TakeWhile", n |-> 0, other |-> << >>]
DropWhile == [op |-> "DropWhile", n |-> 0, other |-> << >>]
ChunkSlice(size) == [op |-> "ChunkSlice", n |-> size, other |-> << >>]
Chunks(size) == [op |-> "Chunks", n |-> size, other |-> << >>]
StepBy(n) == [op |-> "StepBy", n |-> n, other |-> << >>]
Unique(keyFunc) == [op |-> "Unique", n |-> 0, other |-> << >>, keyFunc |-> keyFunc]
\* the Filter that Union puts behind it.Chain(other): its predicate works
\* on the seen of the Union call
UnionFilter(keyFunc) ==
  [op |-> "UnionFilter", n |-> 0, other |-> << >>, keyFunc |-> keyFunc]
\* the Filter of Intersection (keep = TRUE) and Difference (keep = FALSE)
\* over the keys read from other
KeyFilter(fn, keyFunc, keys) ==
  [op |-> fn, n |-> 0, other |-> << >>, keyFunc |-> keyFunc, keys |-> keys]

\* closure variables of a stage at the start of a traversal
StageInit(stage) ==
  CASE stage.op \in {"Take", "Drop"} -> 0
    [] stage.op = "DropWhile" -> FALSE
    [] stage.op = "Chain" -> TRUE
    [] stage.op \in {"ChunkSlice", "Chunks"} -> << >>
    [] stage.op = "StepBy" -> 0
    [] stage.op \in {"Unique", "UnionFilter"} -> {}
    [] OTHER -> 0

\* The callback a combinator hands to its parent seq, up to its call of
\* yield: emit says whether yield is called (with val), s is the closure
\* state at that point, ret the value returned when yield is not called.
FilterCb(s, v) ==
  IF IsEven(v) THEN [emit |-> TRUE, val |-> v, s |-> s, ret |-> TRUE]
  ELSE [emit |-> FALSE, val |-> v, s |-> s, ret |-> TRUE]

MapCb(s, v) == [emit |-> TRUE, val |-> MapFn(v), s |-> s, ret |-> TRUE]

ChainCb(s, v) == [emit |-> TRUE, val |-> v, s |-> s, ret |-> TRUE]

\* variant of the callback of Take that never tells its parent to stop
TakeCbNeverStops(n, i, v) ==
  IF i < n THEN [emit |-> TRUE, val |-> v, s |-> i + 1, ret |-> TRUE]
  ELSE [emit |-> FALSE, val |-> v, s |-> i, ret |-> TRUE]

TakeCb(n, i, v) ==
  IF i < n THEN [emit |-> TRUE, val |-> v, s |-> i + 1, ret |-> TRUE]
  ELSE [emit |-> FALSE, val |-> v, s |-> i, ret |-> FALSE]

\* variant of the callback of Drop that skips one element more
DropCbOffByOne(n, i, v) ==
  IF i <= n THEN [emit |-> FALSE, val |-> v, s |-> i + 1, ret |-> TRUE]
  ELSE [emit |-> TRUE, val |-> v, s |-> i, ret |-> TRUE]

DropCb(n, i, v) ==
  IF i < n THEN [emit |-> FALSE, val |-> v, s |-> i + 1, ret |-> TRUE]
  ELSE [emit |-> TRUE, val |-> v, s |-> i, ret |-> TRUE]

TakeWhileCb(s, v) ==
  IF IsEven(v) THEN [emit |-> TRUE, val |-> v, s |-> s, ret |-> TRUE]
  ELSE [emit |-> FALSE, val |-> v, s |-> s, ret |-> FALSE]

DropWhileCb(dropping, v) ==
  IF dropping THEN [emit |-> TRUE, val |-> v, s |-> dropping, ret |-> TRUE]
  ELSE IF ~IsEven(v) THEN [emit |-> TRUE, val |-> v, s |-> TRUE, ret |-> TRUE]
  ELSE [emit |-> FALSE, val |-> v, s |-> dropping, ret |-> TRUE]

ChunkCb(size, chunk, v) ==
  LET c == Append(chunk, v) IN
  IF Len(c) = size THEN [emit |-> TRUE, val |-> c, s |-> c, ret |-> TRUE]
  ELSE [emit |-> FALSE, val |-> c, s |-> c, ret |-> TRUE]

ChunksCb(size, chunk, v) ==
  LET c == Append(chunk, v) IN
  IF Len(c) = size THEN [emit |-> TRUE, val |-> ToIter(c), s |-> c, ret |-> TRUE]
  ELSE [emit |-> FALSE, val |-> c, s |-> c, ret |-> TRUE]

\* StepBy: i counts the elements seen; n > 0 here, StepBy has checked it
StepByCb(n, i, v) ==
  IF i % n = 0 THEN [emit |-> TRUE, val |-> v, s |-> i, ret |-> TRUE]
  ELSE [emit |-> FALSE, val |-> v, s |-> i + 1, ret |-> TRUE]

\* Unique: seen holds the keys met in this traversal
UniqueCb(keyFunc, seen, v) ==
  IF KeyOf(keyFunc, v) \in seen THEN [emit |-> FALSE, val |-> v, s |-> seen, ret |-> TRUE]
  ELSE [emit |-> TRUE, val |-> v, s |-> seen \cup {KeyOf(keyFunc, v)}, ret |-> TRUE]

\* variant of the predicate of Union that lets every element through
UnionCbKeepsAll(keyFunc, seen, v) ==
  [emit |-> TRUE, val |-> v, s |-> seen \cup {KeyOf(keyFunc, v)}, ret |-> TRUE]

\* Union: Filter with the predicate that looks the key up in seen and adds it
UnionCb(keyFunc, seen, v) ==
  IF KeyOf(keyFunc, v) \in seen THEN [emit |-> FALSE, val |-> v, s |-> seen, ret |-> TRUE]
  ELSE [emit |-> TRUE, val |-> v, s |-> seen \cup {KeyOf(keyFunc, v)}, ret |-> TRUE]

\* variant of the predicates of Intersection / Difference, swapped
KeyFilterCbSwapped(stage, s, v) ==
  IF (KeyOf(stage.keyFunc, v) \in stage.keys) = (stage.op = "Difference")
  THEN [emit |-> TRUE, val |-> v, s |-> s, ret |-> TRUE]
  ELSE [emit |-> FALSE, val |-> v, s |-> s, ret |-> TRUE]

\* Intersection: Filter by _, ok := seen[keyFunc(v)]; Difference by !ok
KeyFilterCb(stage, s, v) ==
  IF (KeyOf(stage.keyFunc, v) \in stage.keys) = (stage.op = "Intersection")
  THEN [emit |-> TRUE, val |-> v, s |-> s, ret |-> TRUE]
  ELSE [emit |-> FALSE, val |-> v, s |-> s, ret |-> TRUE]

Callback(stage, s, v) ==
  CASE stage.op = "Filter" -> FilterCb(s, v)
    [] stage.op = "Map" -> MapCb(s, v)
    [] stage.op = "Chain" -> ChainCb(s, v)
    [] stage.op = "Take" -> TakeCb(stage.n, s, v)
    [] stage.op = "Drop" -> DropCb(stage.n, s, v)
    [] stage.op = "TakeWhile" -> TakeWhileCb(s, v)
    [] stage.op = "DropWhile" -> DropWhileCb(s, v)
    [] stage.op = "ChunkSlice" -> ChunkCb(stage.n, s, v)
    [] stage.op = "Chunks" -> ChunksCb(stage.n, s, v)
    [] stage.op = "StepBy" -> StepByCb(stage.n, s, v)
    [] stage.op = "Unique" -> UniqueCb(stage.keyFunc, s, v)
    [] stage.op = "UnionFilter" -> UnionCb(stage.keyFunc, s, v)
    [] stage.op \in {"Intersection", "Difference"} -> KeyFilterCb(stage, s, v)

\* variant in which Chain does not record that yield returned false
AfterYieldKeepsOn(stage, s, d) ==
  CASE stage.op \in {"ChunkSlice", "Chunks"} -> IF d THEN << >> ELSE s
    [] stage.op = "StepBy" -> IF d THEN s + 1 ELSE s
    [] OTHER -> s

\* The rest of the callback once yield has returned d: Chain records the
\* stop in shouldContinue, the chunkers clear the chunk when told to go on,
\* StepBy counts the element.
\* Every callback that called yield returns what yield returned.
AfterYield(stage, s, d) ==
  CASE stage.op = "Chain" -> IF d THEN s ELSE FALSE
    [] stage.op \in {"ChunkSlice", "Chunks"} -> IF d THEN << >> ELSE s
    [] stage.op = "StepBy" -> IF d THEN s + 1 ELSE s
    [] OTHER -> s

\* variant in which the chunkers drop the chunk that is left over
PostItemsDropsRest(stage, s) ==
  CASE stage.op = "Chain" -> IF s THEN stage.other ELSE << >>
    [] OTHER -> << >>

\* What the seq of a combinator hands to yield after its parent seq has
\* returned: Chain runs other.seq(yield) unless stopped, the chunkers yield
\* the remaining chunk when it is not empty.
PostItems(stage, s) ==
  CASE stage.op = "Chain" -> IF s THEN stage.other ELSE << >>
    [] stage.op = "ChunkSlice" -> IF Len(s) > 0 THEN <<s>> ELSE << >>
    [] stage.op = "Chunks" -> IF Len(s) > 0 THEN <<ToIter(s)>> ELSE << >>
    [] OTHER -> << >>

\* a local variable: x is computed once and Body sees its value
Bind(x, Body(_)) == Body(x)

\* -------------------------------------------------------- terminal consumers
Collect == [kind |-> "Collect", n |-> 0]
NthOrC(n) == [kind |-> "NthOr", n |-> n]
FirstOrC == [kind |-> "FirstOr", n |-> 0]
CountC == [kind |-> "Count", n |-> 0]
\* the yield of iter.Pull: hands the value over and returns !done
PullYield(ans) == [kind |-> IF ans THEN "PullYield" ELSE "PullDone", n |-> 0]

ConsInit == [out |-> << >>, i |-> 0, found |-> FALSE, result |-> << >>]

CollectCb(s, v) == [s |-> [s EXCEPT !.out = Append(@, v)], ret |-> TRUE]

FirstOrCb(s, v) ==
  [s |-> [s EXCEPT !.result = <<v>>, !.found = TRUE], ret |-> FALSE]

NthOrCb(n, s, v) ==
  IF s.i = n THEN [s |-> [s EXCEPT !.result = <<v>>, !.found = TRUE], ret |-> FALSE]
  ELSE [s |-> [s EXCEPT !.i = @ + 1], ret |-> TRUE]

\* Count: count++ and go on
CountCb(s, v) == [s |-> [s EXCEPT !.i = @ + 1], ret |-> TRUE]

PullYieldCb(s, v) == [s |-> [s EXCEPT !.out = Append(@, v)], ret |-> TRUE]
PullDoneCb(s, v) == [s |-> s, ret |-> FALSE]

\* the callback CartesianProduct hands to it1.seq: every b of xs is paired
\* with a and handed to yield (the consumer c.inner) until it returns false
ProductC(xs, inner) == [kind |-> "Product", n |-> 0, xs |-> xs, inner |-> inner]

RECURSIVE Consume(_, _, _)
RECURSIVE ProductCb(_, _, _, _)
ProductCb(c, s, a, j) ==
  IF j > Len(c.xs) THEN [s |-> s, ret |-> TRUE]
  ELSE Bind(Consume(c.inner, s, <<a, c.xs[j]>>), LAMBDA r :
         IF r.ret THEN ProductCb(c, r.s, a, j + 1) ELSE [s |-> r.s, ret |-> FALSE])

Consume(c, s, v) ==
  CASE c.kind = "Collect" -> CollectCb(s, v)
    [] c.kind = "FirstOr" -> FirstOrCb(s, v)
    [] c.kind = "NthOr" -> NthOrCb(c.n, s, v)
    [] c.kind = "PullYield" -> PullYieldCb(s, v)
    [] c.kind = "PullDone" -> PullDoneCb(s, v)
    [] c.kind = "Product" -> ProductCb(c, s, v, 1)
    [] c.kind = "Count" -> CountCb(s, v)

\* ------------------------------------------------------------ one traversal
InitT(pl) ==
  [s |-> [k \in 1..(Len(pl.stages) + 1) |->
            IF k <= Len(pl.stages) THEN StageInit(pl.stages[k]) ELSE ConsInit],
   live |-> [k \in 1..(Len(pl.stages) + 1) |-> TRUE],
   late |-> FALSE, fetched |-> 0, calls |-> 0, hung |-> FALSE]

\* callback k is invoked with v; the result is the traversal record after
\* the callback has returned, and the value it returned
RECURSIVE Push(_, _, _, _, _)
Push(pl, c, k, t, v) ==
  LET t1 == [t EXCEPT !.late = @ \/ ~t.live[k]] IN
  IF k = Len(pl.stages) + 1
  THEN Bind(Consume(c, t.s[k], v), LAMBDA r :
         [t |-> [t1 EXCEPT !.s[k] = r.s, !.live[k] = r.ret], ret |-> r.ret])
  ELSE Bind(Callback(pl.stages[k], t.s[k], v), LAMBDA a :
         IF a.emit
         THEN Bind(Push(pl, c, k + 1, [t1 EXCEPT !.s[k] = a.s], a.val), LAMBDA r :
                [t |-> [r.t EXCEPT !.s[k] = AfterYield(pl.stages[k], @, r.ret),
                                   !.live[k] = r.ret],
                 ret |-> r.ret])
         ELSE [t |-> [t1 EXCEPT !.s[k] = a.s, !.live[k] = a.ret], ret |-> a.ret])

\* The loops of a traversal: level 0 is the loop of the source adapter,
\* level k >= 1 is what the seq of stage k does after its parent returned.
HasItem(pl, lvl, pos, t) ==
  IF lvl = 0 THEN SrcHas(pl.src, pos)
  ELSE pos <= Len(PostItems(pl.stages[lvl], t.s[lvl]))

Item(pl, lvl, pos, t) ==
  IF lvl = 0 THEN SrcAt(pl.src, pos)
  ELSE PostItems(pl.stages[lvl], t.s[lvl])[pos]

\* bookkeeping of the source loop: one more element obtained / the source
\* reported its end (a generator function is called to learn that)
Fetched(lvl, t) ==
  IF lvl = 0 THEN [t EXCEPT !.fetched = @ + 1, !.calls = @ + 1] ELSE t
Ended(lvl, t) ==
  IF lvl = 0 THEN [t EXCEPT !.calls = @ + 1] ELSE t

\* seq(yield) run to its return with consumer c, from loop position
\* (lvl, pos)
RECURSIVE Run(_, _, _, _, _)
Run(pl, c, lvl, pos, t) ==
  IF lvl > Len(pl.stages) THEN t
  ELSE IF lvl = 0 /\ (pos > Fuel \/ Spins(pl.src)) THEN [t EXCEPT !.hung = TRUE]
  ELSE IF ~HasItem(pl, lvl, pos, t) THEN Run(pl, c, lvl + 1, 1, Ended(lvl, t))
  ELSE Bind(Push(pl, c, lvl + 1, Fetched(lvl, t), Item(pl, lvl, pos, t)), LAMBDA r :
         IF r.ret THEN Run(pl, c, lvl, pos + 1, r.t)
         ELSE Run(pl, c, lvl + 1, 1, r.t))

\* it.seq(consumer) from the start
Traverse(pl, c) == Run(pl, c, 0, 1, InitT(pl))

ConsOf(pl, t) == t.s[Len(pl.stages) + 1]

\* ------------------------------------------------------------------ iter.Pull
\* The producer that iter.Pull(seq) creates: seq runs as a coroutine that
\* is suspended inside yield.  mode is "none" before iter.Pull is called,
\* "ready" before the first next, "susp" while suspended in yield (at loop
\* position (lvl, pos), t being the traversal record when the element was
\* fetched), "fin" once seq has returned, "hung" if seq never comes back.
NoPull == [mode |-> "none", lvl |-> 0, pos |-> 1, t |-> << >>, val |-> << >>]
PullNew(pl) == [mode |-> "ready", lvl |-> 0, pos |-> 1, t |-> InitT(pl), val |-> << >>]

\* seq runs on from loop position (lvl, pos) until yield is reached
RECURSIVE Scan(_, _, _, _)
Scan(pl, lvl, pos, t) ==
  IF lvl > Len(pl.stages)
  THEN [mode |-> "fin", lvl |-> lvl, pos |-> pos, t |-> t, val |-> << >>]
  ELSE IF lvl = 0 /\ (pos > Fuel \/ Spins(pl.src))
  THEN [mode |-> "hung", lvl |-> lvl, pos |-> pos, t |-> t, val |-> << >>]
  ELSE IF ~HasItem(pl, lvl, pos, t) THEN Scan(pl, lvl + 1, 1, Ended(lvl, t))
  ELSE Bind(Fetched(lvl, t), LAMBDA t0 :
       Bind(Push(pl, PullYield(TRUE), lvl + 1, t0, Item(pl, lvl, pos, t)), LAMBDA r :
       Bind(ConsOf(pl, r.t).out, LAMBDA out :
         IF Len(out) > Len(ConsOf(pl, t).out)
         THEN [mode |-> "susp", lvl |-> lvl, pos |-> pos, t |-> t0,
               val |-> <<out[Len(out)]>>]
         ELSE IF r.ret THEN Scan(pl, lvl, pos + 1, r.t)
         ELSE Scan(pl, lvl + 1, 1, r.t))))

RECURSIVE PullNext(_, _)
RECURSIVE PullStop(_, _)

\* ----------------------------------------------------------------- Zip / Zip2
\* The seq of Zip(it1, it2) and Zip2(it1, it2, fill) as a source: p1 and p2
\* are the pipelines of it1 and it2, a pair is <<First, Second>>.
Combined(fn, p1, p2, fill) ==
  [kind |-> fn, slice |-> << >>, inf |-> FALSE, p1 |-> p1, p2 |-> p2, fill |-> fill]
Zip(p1, p2) == Combined("Zip", p1, p2, <<0, 0>>)
Zip2(p1, p2, fill) == Combined("Zip2", p1, p2, fill)
ZipKinds == {"Zip", "Zip2"}

\* pull1, stop1 := iter.Pull(it1.seq); pull2, stop2 := iter.Pull(it2.seq)
ZipPulls(z) == [co1 |-> PullNew(z.p1), co2 |-> PullNew(z.p2)]

\* variant of the loop body in which Zip2 goes on while the first side lasts
ZipIterFirstOnly(z, w) ==
  Bind(PullNext(z.p1, w.co1), LAMBDA n1 :
  Bind(PullNext(z.p2, w.co2), LAMBDA n2 :
    LET ok1 == n1.mode = "susp"
        ok2 == n2.mode = "susp"
    IN IF ~ok1
       THEN [yield |-> FALSE, val |-> << >>, co1 |-> n1, co2 |-> n2]
       ELSE [yield |-> TRUE, co1 |-> n1, co2 |-> n2,
             val |-> <<n1.val[1], IF ok2 THEN n2.val[1] ELSE z.fill[2]>>]))

\* variant of the loop body in which Zip pads like Zip2
ZipIterPads(z, w) ==
  Bind(PullNext(z.p1, w.co1), LAMBDA n1 :
  Bind(PullNext(z.p2, w.co2), LAMBDA n2 :
    LET ok1 == n1.mode = "susp"
        ok2 == n2.mode = "susp"
    IN IF ~ok1 /\ ~ok2
       THEN [yield |-> FALSE, val |-> << >>, co1 |-> n1, co2 |-> n2]
       ELSE [yield |-> TRUE, co1 |-> n1, co2 |-> n2,
             val |-> <<IF ok1 THEN n1.val[1] ELSE z.fill[1],
                       IF ok2 THEN n2.val[1] ELSE z.fill[2]>>]))

\* One turn of the loop up to its yield: both sides are pulled, then Zip
\* returns if either is exhausted, Zip2 if both are; yield says whether
\* yield is reached, val is the pair handed to it.
ZipIter(z, w) ==
  Bind(PullNext(z.p1, w.co1), LAMBDA n1 :
  Bind(PullNext(z.p2, w.co2), LAMBDA n2 :
    LET ok1 == n1.mode = "susp"
        ok2 == n2.mode = "susp"
    IN IF (z.kind = "Zip" /\ (~ok1 \/ ~ok2)) \/ (z.kind = "Zip2" /\ ~ok1 /\ ~ok2)
       THEN [yield |-> FALSE, val |-> << >>, co1 |-> n1, co2 |-> n2]
       ELSE [yield |-> TRUE, co1 |-> n1, co2 |-> n2,
             val |-> <<IF ok1 THEN n1.val[1] ELSE z.fill[1],
                       IF ok2 THEN n2.val[1] ELSE z.fill[2]>>]))

\* variant of the return that stops only the first producer
ZipReturnStopsFirst(z, w) ==
  [co1 |-> PullStop(z.p1, w.co1), co2 |-> w.co2]

\* the seq returns: the deferred stop2() and stop1() run
ZipReturn(z, w) ==
  [co1 |-> PullStop(z.p1, w.co1), co2 |-> PullStop(z.p2, w.co2)]

\* the seq run to its return with consumer c, from the top of the loop; w
\* holds the two producers and the consumer's closure state
RECURSIVE ZipRun(_, _, _)
ZipRun(z, c, w) ==
  Bind(ZipIter(z, w), LAMBDA i :
    IF ~i.yield
    THEN Bind(ZipReturn(z, i), LAMBDA e :
           [co1 |-> e.co1, co2 |-> e.co2, cons |-> w.cons, stopped |-> FALSE])
    ELSE Bind(Consume(c, w.cons, i.val), LAMBDA r :
           IF r.ret
           THEN ZipRun(z, c, [co1 |-> i.co1, co2 |-> i.co2, cons |-> r.s,
                              stopped |-> FALSE])
           ELSE Bind(ZipReturn(z, i), LAMBDA e :
                  [co1 |-> e.co1, co2 |-> e.co2, cons |-> r.s, stopped |-> TRUE])))

\* the seq as the coroutine of iter.Pull: from the top of the loop to the
\* next yield or to the return
ZipScan(z, t, w) ==
  Bind(ZipIter(z, w), LAMBDA i :
    IF i.yield
    THEN [mode |-> "susp", lvl |-> 0, pos |-> 1, t |-> t, val |-> <<i.val>>,
          co1 |-> i.co1, co2 |-> i.co2]
    ELSE Bind(ZipReturn(z, i), LAMBDA e :
           [mode |-> "fin", lvl |-> 0, pos |-> 1, t |-> t, val |-> << >>,
            co1 |-> e.co1, co2 |-> e.co2]))

ZipPullNext(z, co) ==
  CASE co.mode = "ready" -> ZipScan(z, co.t, ZipPulls(z))
    [] co.mode = "susp" -> ZipScan(z, co.t, co)
    [] OTHER -> co

\* stop() before the first next: the seq never runs, no producer is made
ZipPullStop(z, co) ==
  CASE co.mode = "ready" ->
         [mode |-> "fin", lvl |-> 0, pos |-> 1, t |-> co.t, val |-> << >>,
          co1 |-> NoPull, co2 |-> NoPull]
    [] co.mode = "susp" ->
         Bind(ZipReturn(z, co), LAMBDA e :
           [mode |-> "fin", lvl |-> 0, pos |-> 1, t |-> co.t, val |-> << >>,
            co1 |-> e.co1, co2 |-> e.co2])
    [] OTHER -> co

\* next(): resume the producer, yield returning true
PullNext(pl, co) ==
  IF pl.src.kind \in ZipKinds THEN ZipPullNext(pl.src, co)
  ELSE
  CASE co.mode = "ready" -> Scan(pl, 0, 1, co.t)
    [] co.mode = "susp" ->
         Bind(Push(pl, PullYield(TRUE), co.lvl + 1, co.t,
                   Item(pl, co.lvl, co.pos, co.t)), LAMBDA r :
           Scan(pl, IF r.ret THEN co.lvl ELSE co.lvl + 1,
                IF r.ret THEN co.pos + 1 ELSE 1, r.t))
    [] OTHER -> co

\* stop(): done is set, the suspended yield and every later one return
\* false, seq runs to its return
PullStop(pl, co) ==
  IF pl.src.kind \in ZipKinds THEN ZipPullStop(pl.src, co)
  ELSE
  CASE co.mode = "ready" -> [co EXCEPT !.mode = "fin"]
    [] co.mode = "susp" ->
         Bind(Push(pl, PullYield(FALSE), co.lvl + 1, co.t,
                   Item(pl, co.lvl, co.pos, co.t)), LAMBDA r :
         Bind(Run(pl, PullYield(FALSE), IF r.ret THEN co.lvl ELSE co.lvl + 1,
                  IF r.ret THEN co.pos + 1 ELSE 1, r.t), LAMBDA t2 :
           [mode |-> IF t2.hung THEN "hung" ELSE "fin", lvl |-> Len(pl.stages) + 1,
            pos |-> 1, t |-> t2, val |-> << >>]))
    [] OTHER -> co

\* ------------------------------------------------------- the manual cursor
\* fields of Iterator: curr is << >> for nil and <<v>> for a pointer to v;
\* pull and stop are TRUE when the func value is not nil
NewIter == [curr |-> << >>, done |-> FALSE, pull |-> FALSE, stop |-> FALSE]

\* variants of Next: exhaustion drops the producer without setting done /
\* curr is only set while it is nil
NextForgetsDone(pl, i, co) ==
  IF i.done THEN [it |-> i, co |-> co, ret |-> FALSE, made |-> 0]
  ELSE LET fresh == ~i.pull
           i1 == IF fresh THEN [i EXCEPT !.pull = TRUE, !.stop = TRUE] ELSE i
           made == IF fresh THEN 1 ELSE 0
       IN Bind(PullNext(pl, IF fresh THEN PullNew(pl) ELSE co), LAMBDA c2 :
            IF c2.mode = "susp"
            THEN [it |-> [i1 EXCEPT !.curr = c2.val], co |-> c2, ret |-> TRUE,
                  made |-> made]
            ELSE [it |-> [i1 EXCEPT !.pull = FALSE, !.stop = FALSE],
                  co |-> PullStop(pl, c2), ret |-> FALSE, made |-> made])

NextStaleCurr(pl, i, co) ==
  IF i.done THEN [it |-> i, co |-> co, ret |-> FALSE, made |-> 0]
  ELSE LET fresh == ~i.pull
           i1 == IF fresh THEN [i EXCEPT !.pull = TRUE, !.stop = TRUE] ELSE i
           made == IF fresh THEN 1 ELSE 0
       IN Bind(PullNext(pl, IF fresh THEN PullNew(pl) ELSE co), LAMBDA c2 :
            IF c2.mode = "susp"
            THEN [it |-> IF i1.curr = << >> THEN [i1 EXCEPT !.curr = c2.val] ELSE i1,
                  co |-> c2, ret |-> TRUE, made |-> made]
            ELSE [it |-> [i1 EXCEPT !.done = TRUE],
                  co |-> IF i1.stop THEN PullStop(pl, c2) ELSE c2,
                  ret |-> FALSE, made |-> made])

\* Next(): the pull producer is created by the first call; a pull that
\* delivers nothing sets done and calls stop
NextOp(pl, i, co) ==
  IF i.done THEN [it |-> i, co |-> co, ret |-> FALSE, made |-> 0]
  ELSE LET fresh == ~i.pull
           i1 == IF fresh THEN [i EXCEPT !.pull = TRUE, !.stop = TRUE] ELSE i
           made == IF fresh THEN 1 ELSE 0
       IN Bind(PullNext(pl, IF fresh THEN PullNew(pl) ELSE co), LAMBDA c2 :
            IF c2.mode = "susp"
            THEN [it |-> [i1 EXCEPT !.curr = c2.val], co |-> c2, ret |-> TRUE,
                  made |-> made]
            ELSE [it |-> [i1 EXCEPT !.done = TRUE],
                  co |-> IF i1.stop THEN PullStop(pl, c2) ELSE c2,
                  ret |-> FALSE, made |-> made])

\* variant of Current without the done check
CurrentNoDoneCheck(i) ==
  IF i.curr = << >> THEN [panic |-> TRUE, val |-> << >>]
  ELSE [panic |-> FALSE, val |-> i.curr]

CurrentOp(i) ==
  IF i.curr = << >> THEN [panic |-> TRUE, val |-> << >>]
  ELSE IF i.done THEN [panic |-> TRUE, val |-> << >>]
  ELSE [panic |-> FALSE, val |-> i.curr]

\* variants of Close: done is not set / stop is dropped without being called
CloseNoDone(pl, i, co) ==
  IF i.stop
  THEN [it |-> [i EXCEPT !.stop = FALSE], co |-> PullStop(pl, co), panic |-> FALSE]
  ELSE [it |-> i, co |-> co, panic |-> FALSE]

CloseNoStop(pl, i, co) ==
  [it |-> [i EXCEPT !.stop = FALSE, !.done = TRUE], co |-> co, panic |-> FALSE]

CloseOp(pl, i, co) ==
  IF i.stop
  THEN [it |-> [i EXCEPT !.stop = FALSE, !.done = TRUE], co |-> PullStop(pl, co),
        panic |-> FALSE]
  ELSE [it |-> [i EXCEPT !.done = TRUE], co |-> co, panic |-> FALSE]

\* --------------------------------------------------------- derived iterators
\* it.Take(n), it.Drop(n), ...: a new Iterator whose seq wraps it.seq
With(pl, stage) == [src |-> pl.src, stages |-> Append(pl.stages, stage)]

\* ------------------------------------------------------- terminal operations
\* every result is reported in one shape: out the slice returned, val the
\* value returned (<< >> if none), panic / hung how the call ended otherwise,
\* and from the traversal late, fetched and calls
Result(op, n, out, val, panic, t) ==
  [op |-> op, n |-> n, out |-> out, out2 |-> << >>, val |-> val, panic |-> panic,
   hung |-> t.hung, late |-> t.late, fetched |-> t.fetched, calls |-> t.calls]

NoResult ==
  Result("none", 0, << >>, << >>, FALSE,
         [hung |-> FALSE, late |-> FALSE, fetched |-> 0, calls |-> 0])

CollectOp(pl) == Traverse(pl, Collect)

\* variant of NthOr without the clamp of a negative n
NthOrNoClamp(pl, n, d) ==
  Bind(Traverse(pl, NthOrC(n)), LAMBDA t :
    [t |-> t, val |-> IF ConsOf(pl, t).found THEN ConsOf(pl, t).result ELSE <<d>>])

NthOrOp(pl, n, d) ==
  Bind(Traverse(pl, NthOrC(IF n < 0 THEN 0 ELSE n)), LAMBDA t :
    [t |-> t, val |-> IF ConsOf(pl, t).found THEN ConsOf(pl, t).result ELSE <<d>>])

\* First(): it.Next(); return it.Current(), on the receiver's own cursor
FirstOp(pl, i, co) ==
  Bind(NextOp(pl, i, co), LAMBDA r :
  Bind(CurrentOp(r.it), LAMBDA c :
    [it |-> r.it, co |-> r.co, val |-> c.val,
     panic |-> c.panic /\ r.co.mode # "hung"]))

\* Nth(n): it.Drop(n).First(), the cursor being that of the new iterator
NthOp(pl, n) ==
  LET m == IF n < 0 THEN 0 ELSE n
  IN FirstOp(With(pl, Drop(m)), NewIter, NoPull)

\* ------------------------------------------------------------------- state
VARIABLES
  pl,     \* the iterator under consideration: its source and combinators
  it,     \* its cursor fields curr, done, pull, stop
  co,     \* the producer behind it.pull / it.stop
  hist,   \* what the caller has seen of the cursor so far
  last,   \* the last cursor call and how it ended
  res     \* the last terminal operation and its result

vars == <<pl, it, co, hist, last, res>>

\* the combinator instances the model wraps around a source
StageSet ==
  {Filter, Map, TakeWhile, DropWhile, Take(1), Drop(1), Chain(<<1>>),
   ChunkSlice(1), ChunkSlice(2), Chunks(2)}

\* ChunkSlice and Chunks change the element type: behind them the model
\* keeps the combinators that take no callback over the elements
Chunkers == {"ChunkSlice", "Chunks"}
Untyped == {"Take", "Drop"} \cup Chunkers
WellTyped(ch) ==
  \A j \in 1..Len(ch) : \A k \in 1..Len(ch) :
    (j < k /\ ch[j].op \in Chunkers) => ch[k].op \in Untyped

ChainsUpTo(n) == {ch \in UNION {[1..m -> StageSet] : m \in 0..n} : WellTyped(ch)}
StageChains == ChainsUpTo(MaxStages)

NoHist ==
  [nTrue |-> 0, sinceBad |-> FALSE, nFalse |-> 0, closes |-> 0,
   lastVal |-> << >>, made |-> 0]

NoCall == [op |-> "none", ret |-> FALSE, panic |-> FALSE, val |-> << >>]

\* ------------------------------------------------ the cursor: Next/Current/Close
InitCursor ==
  /\ pl \in {[src |-> ToIter(s), stages |-> ch] : s \in Slices, ch \in StageChains}
  /\ it = NewIter
  /\ co = NoPull
  /\ hist = NoHist
  /\ last = NoCall
  /\ res = NoResult

Next ==
  \E r \in {NextOp(pl, it, co)} :
    /\ it' = r.it
    /\ co' = r.co
    /\ last' = [op |-> "Next", ret |-> r.ret, panic |-> FALSE, val |-> << >>]
    /\ hist' = [hist EXCEPT
                  !.nTrue = IF r.ret THEN @ + 1 ELSE @,
                  !.sinceBad = ~r.ret,
                  !.nFalse = IF r.ret THEN @ ELSE Min(@ + 1, 2),
                  !.lastVal = IF r.ret THEN r.co.val ELSE @,
                  !.made = @ + r.made]
    /\ UNCHANGED <<pl, res>>

Current ==
  \E r \in {CurrentOp(it)} :
    /\ last' = [op |-> "Current", ret |-> FALSE, panic |-> r.panic, val |-> r.val]
    /\ UNCHANGED <<pl, it, co, hist, res>>

Close ==
  \E r \in {CloseOp(pl, it, co)} :
    /\ it' = r.it
    /\ co' = r.co
    /\ last' = [op |-> "Close", ret |-> FALSE, panic |-> r.panic, val |-> << >>]
    /\ hist' = [hist EXCEPT !.sinceBad = TRUE, !.closes = Min(@ + 1, 2)]
    /\ UNCHANGED <<pl, res>>

NextCursor == Next \/ Current \/ Close

SpecCursor == InitCursor /\ [][NextCursor]_vars

\* ----------------------------------------------------------- cursor properties
\* what Collect returns for the iterator under consideration
Collected == ConsOf(pl, CollectOp(pl)).out

\* C1: Current() returns the element of the most recent successful Next()
\* exactly when some Next() has returned true and neither a Next() that
\* returned false nor a Close() has happened since; otherwise it panics.
CurrentReturnsIff ==
  last.op = "Current" =>
    IF hist.nTrue > 0 /\ ~hist.sinceBad
    THEN ~last.panic /\ last.val = hist.lastVal
    ELSE last.panic

WitCurrentReturns ==
  last.op = "Current" /\ ~last.panic /\ hist.nTrue >= 2

WitCurrentPanicsAfterDone ==
  last.op = "Current" /\ last.panic /\ hist.nTrue >= 1

\* C2: once a Next() has returned false, every later Next() returns false,
\* delivers no element and creates no pull producer.
ExhaustionPermanent ==
  [][(hist.nFalse >= 1 /\ last'.op = "Next") =>
       (~last'.ret /\ it'.curr = it.curr /\ hist'.made = hist.made /\ co' = co)]_vars

WitNextAfterExhaustion ==
  last.op = "Next" /\ hist.nFalse = 2 /\ hist.nTrue >= 1

\* C3: Close() never panics; after it the iterator is done with no live
\* producer, and a further Close() changes nothing.
CloseIdempotent ==
  [][last'.op = "Close" =>
       /\ ~last'.panic
       /\ it'.done
       /\ co'.mode \in {"none", "fin"}
       /\ hist.closes >= 1 => (it' = it /\ co' = co)]_vars

WitClosedTwice ==
  last.op = "Close" /\ hist.closes = 2 /\ hist.nTrue >= 1 /\ hist.nFalse = 0

\* C4: done implies that the producer created by Next has been stopped, on
\* natural exhaustion without any Close as well as on Close after a partial
\* consumption.
DoneImpliesStopped ==
  it.done => (co.mode = "fin" \/ (co.mode = "none" /\ ~it.pull))

WitExhaustedWithoutClose ==
  it.done /\ hist.closes = 0 /\ hist.nTrue >= 1 /\ co.mode = "fin"

WitClosedMidway ==
  it.done /\ hist.closes = 1 /\ hist.nTrue >= 1 /\ hist.nFalse = 0 /\ co.mode = "fin"

\* C5: the values Current() reads after each successful Next(), until Next()
\* returns false, are the slice Collect() returns for the same iterator.
PullEqualsPush ==
  Bind(Collected, LAMBDA all :
    /\ (last.op = "Current" /\ ~last.panic) =>
         (hist.nTrue <= Len(all) /\ last.val = <<all[hist.nTrue]>>)
    /\ (hist.nFalse >= 1 /\ hist.closes = 0) => hist.nTrue = Len(all))

WitPulledAll ==
  hist.nFalse >= 1 /\ hist.closes = 0 /\ hist.nTrue >= 2 /\ Len(pl.stages) >= 1

\* ------------------------------------------ terminal operations on an iterator
\* one terminal operation is applied to a freshly built iterator
StreamSources ==
  {FromFunc(s, FALSE) : s \in Slices} \cup {FromChannel(s) : s \in Slices}
    \cup {FromFunc(<< >>, TRUE), Generate}

PushPipelines ==
  {[src |-> ToIter(s), stages |-> ch] : s \in Slices, ch \in StageChains}
    \cup {[src |-> src, stages |-> ch] :
            src \in StreamSources, ch \in ChainsUpTo(MaxStages - 1)}

Args == (0 - MaxNeg)..MaxN
Defaults == {0}

InitPush ==
  /\ pl \in PushPipelines
  /\ it = NewIter
  /\ co = NoPull
  /\ hist = NoHist
  /\ last = NoCall
  /\ res = NoResult

\* what a terminal operation that ran the cursor of a derived iterator reports
CursorResult(op, n, r) ==
  Result(op, n, << >>, r.val, r.panic, [r.co.t EXCEPT !.hung = (r.co.mode = "hung")])

\* what Collect() on the iterator q reports
CollectResult(op, n, q) ==
  Bind(CollectOp(q), LAMBDA t : Result(op, n, ConsOf(q, t).out, << >>, FALSE, t))

\* it.Collect()
DoCollect ==
  /\ res.op = "none"
  /\ res' = CollectResult("Collect", 0, pl)
  /\ UNCHANGED <<pl, it, co, hist, last>>

\* it.NthOr(n, d)
DoNthOr ==
  /\ res.op = "none"
  /\ \E n \in Args : \E d \in Defaults : \E r \in {NthOrOp(pl, n, d)} :
       res' = Result("NthOr", n, << >>, r.val, FALSE, r.t)
  /\ UNCHANGED <<pl, it, co, hist, last>>

\* it.Nth(n)
DoNth ==
  \E n \in Args :
    /\ res.op = "none"
    /\ res' = CursorResult("Nth", n, NthOp(pl, n))
    /\ UNCHANGED <<pl, it, co, hist, last>>

\* it.Take(n).Collect()
DoTake ==
  \E n \in Args :
    /\ res.op = "none"
    /\ res' = CollectResult("Take", n, With(pl, Take(n)))
    /\ UNCHANGED <<pl, it, co, hist, last>>

\* it.Drop(n).Collect()
DoDrop ==
  \E n \in Args :
    /\ res.op = "none"
    /\ res' = CollectResult("Drop", n, With(pl, Drop(n)))
    /\ UNCHANGED <<pl, it, co, hist, last>>

\* Take(n).Collect() and Drop(n).Collect() on two iterators built alike
DoTakeDrop ==
  /\ res.op = "none"
  /\ \E n \in Counts :
       \E r1 \in {CollectResult("TakeDrop", n, With(pl, Take(n)))} :
         \E r2 \in {CollectResult("TakeDrop", n, With(pl, Drop(n)))} :
           res' = [r1 EXCEPT !.out2 = r2.out, !.hung = r1.hung \/ r2.hung]
  /\ UNCHANGED <<pl, it, co, hist, last>>

NextPush == DoCollect \/ DoNthOr \/ DoNth \/ DoTake \/ DoDrop \/ DoTakeDrop

SpecPush == InitPush /\ [][NextPush]_vars

Clamp(n) == IF n < 0 THEN 0 ELSE n
Bare == pl.stages = << >>

\* C6: once the consumer callback of a combinator or source has returned
\* false in a traversal, it is not invoked again in that traversal.
EarlyStopFinal == ~res.late

\* C7: for n >= 0, Take(n).Collect() over a FromFunc / Generate / FromChannel
\* source obtains from the source exactly the min(n, available) elements it
\* delivers: none is produced and then discarded.
TakeNoOverrun ==
  (res.op = "Take" /\ res.n >= 0 /\ Bare
     /\ pl.src.kind \in {"FromFunc", "Generate", "FromChannel"}) =>
    /\ res.fetched = Len(res.out)
    /\ res.fetched = IF pl.src.inf THEN Clamp(res.n)
                     ELSE Min(Clamp(res.n), Len(pl.src.slice))

\* C8: Take(n).Collect() on an infinite Generate or FromFunc sequence returns,
\* with exactly the first n values of the generator in order.
TakeOfInfinite ==
  (res.op = "Take" /\ res.n >= 0 /\ Bare /\ pl.src.inf) =>
    (~res.hung /\ res.out = [j \in 1..res.n |-> GenVal(j)])

WitTakeOfInfinite ==
  res.op = "Take" /\ res.n >= 2 /\ Bare /\ pl.src.kind = "Generate" /\ Len(res.out) = res.n

\* C9: for a slice S and n >= 0, Take(n).Collect() is the first min(n, len(S))
\* elements of S, Drop(n).Collect() the remaining ones, and together they are S.
TakeDropComplement ==
  (res.op = "TakeDrop" /\ Bare /\ pl.src.kind = "ToIter") =>
    LET S == pl.src.slice
        m == Min(res.n, Len(S))
    IN /\ res.out \o res.out2 = S
       /\ res.out = SubSeq(S, 1, m)
       /\ res.out2 = SubSeq(S, m + 1, Len(S))

WitTakeDropSplit ==
  /\ res.op = "TakeDrop" /\ Bare /\ pl.src.kind = "ToIter"
  /\ res.n > 0 /\ res.n < Len(pl.src.slice)
  /\ res.out # << >> /\ res.out2 # << >>

\* what the operation recorded in res returns when its count is 0
ResultAtZero ==
  CASE res.op = "Take" -> CollectResult("Take", res.n, With(pl, Take(0)))
    [] res.op = "Drop" -> CollectResult("Drop", res.n, With(pl, Drop(0)))
    [] res.op = "Nth" -> CursorResult("Nth", res.n, NthOp(pl, 0))
    [] res.op = "NthOr" ->
         Bind(NthOrOp(pl, 0, 0), LAMBDA r :
           Result("NthOr", res.n, << >>, r.val, FALSE, r.t))
    [] OTHER -> res

\* C10: a negative count is clamped to zero.  On every iterator Take, Drop,
\* Nth and NthOr with n < 0 do what they do with 0; on every source S,
\* Take(n) yields nothing, Drop(n) yields all of S, Nth(n) returns the first
\* element of a non-empty S and NthOr(n, d) the first element or d when S is
\* empty, and none of them panics or fails to return where Collect returns.
NegativeClamped ==
  res.n < 0 =>
    /\ res = ResultAtZero
    /\ Bare =>
         Bind(CollectResult("Collect", 0, pl), LAMBDA base :
           CASE res.op = "Take" -> res.out = << >> /\ ~res.panic /\ ~res.hung
             [] res.op = "Drop" ->
                  res.out = base.out /\ ~res.panic /\ res.hung = base.hung
             [] res.op = "Nth" ->
                  base.out # << >> =>
                    (res.val = <<base.out[1]>> /\ ~res.panic /\ ~res.hung)
             [] res.op = "NthOr" ->
                  /\ ~res.panic /\ ~res.hung
                  /\ res.val = IF base.out # << >> THEN <<base.out[1]>> ELSE <<0>>
             [] OTHER -> TRUE)

WitNegativeNthOr ==
  res.op = "NthOr" /\ res.n < 0 /\ Bare /\ res.val = <<2>>

\* ------------------------------------------- functions of several iterators
\* The iterator under consideration is the result of a function of two
\* iterators: pl.src names the function and holds the pipelines of its
\* arguments.
First == pl.src.p1
Second == pl.src.p2

NoStage(ch, ops) == \A j \in 1..Len(ch) : ch[j].op \notin ops

\* the arguments: a slice behind combinators that keep the element type,
\* and a slice
ElementStages == {Filter, Take(1), Chain(<<1>>)}
ElementChains == UNION {[1..m -> ElementStages] : m \in 0..(MaxStages - 1)}
ElementPipelines == {[src |-> ToIter(s), stages |-> ch] : s \in Slices, ch \in ElementChains}
SlicePipelines == {[src |-> ToIter(s), stages |-> << >>] : s \in Slices}

\* the fill values handed to Zip2
Fills == {<<8, 9>>}

\* the consumers a traversal is driven by: Collect takes everything, NthOr(n)
\* returns false when it is handed the element at index n
Consumers == {Collect} \cup {NthOrC(n) : n \in Counts}

\* seq(yield) from the start, the consumer carrying on with closure state cs
TraverseFrom(q, c, cs) ==
  Run(q, c, 0, 1, [InitT(q) EXCEPT !.s[Len(q.stages) + 1] = cs])

\* the consumer of the traversal t of q has returned false
Stopped(q, t) == ~t.live[Len(q.stages) + 1]

\* what Collect() on q returns
Elems(q) == ConsOf(q, CollectOp(q)).out

\* a.Chain(b) traversed by consumer c.  other.seq(yield) is called when
\* it.seq has returned with shouldContinue still true.
ChainOp(a, b, c) ==
  Bind(With(a, Chain(b.src.slice)), LAMBDA q :
  Bind(Traverse(q, c), LAMBDA t :
    [op |-> "Chain", c |-> c, n |-> c.n, cons |-> ConsOf(q, t), late |-> t.late,
     invoked |-> <<TRUE, t.s[Len(q.stages)]>>]))

\* Flatten(its...) traversed by consumer c, from its[j] on; f holds the
\* consumer's closure state, which of its were invoked, and whether the
\* callback has found yield returning false
RECURSIVE FlattenRun(_, _, _, _)
\* variant that goes on to the next iterator whatever yield returned
FlattenIgnoresStop(its, c, j, f) ==
  IF j > Len(its) THEN f
  ELSE Bind(TraverseFrom(its[j], c, f.cons), LAMBDA t :
         FlattenRun(its, c, j + 1,
                    [f EXCEPT !.cons = ConsOf(its[j], t), !.late = @ \/ t.late,
                              !.invoked[j] = TRUE]))

FlattenRun(its, c, j, f) ==
  IF j > Len(its) THEN f
  ELSE Bind(TraverseFrom(its[j], c, f.cons), LAMBDA t :
         IF Stopped(its[j], t)
         THEN [f EXCEPT !.cons = ConsOf(its[j], t), !.late = @ \/ t.late,
                        !.invoked[j] = TRUE]
         ELSE FlattenRun(its, c, j + 1,
                         [f EXCEPT !.cons = ConsOf(its[j], t), !.late = @ \/ t.late,
                                   !.invoked[j] = TRUE]))

FlattenOp(its, c) ==
  FlattenRun(its, c, 1,
             [op |-> "Flatten", c |-> c, n |-> c.n, cons |-> ConsInit, late |-> FALSE,
              invoked |-> [j \in 1..Len(its) |-> FALSE], its |-> its])

\* Zip(it1, it2) / Zip2(it1, it2, fill) traversed by consumer c
ZipOp(z, c) ==
  Bind(ZipRun(z, c, [co1 |-> PullNew(z.p1), co2 |-> PullNew(z.p2), cons |-> ConsInit,
                     stopped |-> FALSE]), LAMBDA w :
    [op |-> z.kind, c |-> c, n |-> c.n, cons |-> w.cons, stopped |-> w.stopped,
     co1 |-> w.co1, co2 |-> w.co2])

\* variant of CartesianProduct with it2 as the outer loop
ProductSwapped(a, b, c) ==
  Bind(Elems(a), LAMBDA xs :
  Bind(Traverse(b, ProductC(xs, c)), LAMBDA t :
    [op |-> "CartesianProduct", c |-> c, n |-> c.n,
     cons |-> [ConsOf(b, t) EXCEPT
                 !.out = [j \in 1..Len(@) |-> <<@[j][2], @[j][1]>>]],
     late |-> t.late]))

\* CartesianProduct(it1, it2) traversed by consumer c: xs := it2.Collect()
\* when the iterator is built, then it1.seq with the pairing callback
ProductOp(a, b, c) ==
  Bind(Elems(b), LAMBDA xs :
  Bind(Traverse(a, ProductC(xs, c)), LAMBDA t :
    [op |-> "CartesianProduct", c |-> c, n |-> c.n, cons |-> ConsOf(a, t),
     late |-> t.late]))

\* --------------------------------------------- the functions, one call each
InitCombine ==
  /\ pl \in {[src |-> Combined(fn, a, b, fill), stages |-> << >>] :
               fn \in {"Chain", "Flatten", "Zip", "Zip2", "CartesianProduct"},
               a \in ElementPipelines, b \in SlicePipelines, fill \in Fills}
  /\ it = NewIter
  /\ co = NoPull
  /\ hist = NoHist
  /\ last = NoCall
  /\ res = NoResult

\* no terminal operation has run and the cursor has not been used
Untouched == res.op = "none" /\ it = NewIter /\ hist = NoHist /\ last = NoCall

\* first.Chain(second), traversed
DoChain ==
  /\ Untouched /\ pl.src.kind = "Chain"
  /\ \E c \in Consumers : res' = ChainOp(First, Second, c)
  /\ UNCHANGED <<pl, it, co, hist, last>>

\* the argument lists of Flatten the model tries
FlattenArgs ==
  {<< >>, <<First>>, <<First, Second>>, <<Second, First>>, <<First, Second, First>>}

\* Flatten(its...), traversed
DoFlatten ==
  /\ Untouched /\ pl.src.kind = "Flatten"
  /\ \E its \in FlattenArgs : \E c \in Consumers : res' = FlattenOp(its, c)
  /\ UNCHANGED <<pl, it, co, hist, last>>

\* Zip(first, second) or Zip2(first, second, fill), traversed
DoZip ==
  /\ Untouched /\ pl.src.kind \in ZipKinds
  /\ \E c \in Consumers : res' = ZipOp(pl.src, c)
  /\ UNCHANGED <<pl, it, co, hist, last>>

\* CartesianProduct(first, second), traversed
DoProduct ==
  /\ Untouched /\ pl.src.kind = "CartesianProduct"
  /\ \E c \in Consumers : res' = ProductOp(First, Second, c)
  /\ UNCHANGED <<pl, it, co, hist, last>>

\* Next(), Current() and Close() on the iterator Zip / Zip2 returned
ZipCursor ==
  /\ res.op = "none" /\ pl.src.kind \in ZipKinds
  /\ (Next \/ Current \/ Close)

NextCombine == DoChain \/ DoFlatten \/ DoZip \/ DoProduct \/ ZipCursor

SpecCombine == InitCombine /\ [][NextCombine]_vars

RECURSIVE Concat(_)
Concat(ss) == IF ss = << >> THEN << >> ELSE Head(ss) \o Concat(Tail(ss))

\* what a consumer holds after it was driven over the elements all
Driven(c, cons, all) ==
  IF c.kind = "Collect" THEN cons.out = all /\ ~cons.found
  ELSE IF c.n < Len(all) THEN cons.found /\ cons.result = <<all[c.n + 1]>>
  ELSE ~cons.found

\* C11: a.Chain(b) delivers the elements of a in order and then those of b;
\* when the consumer returns false on an element of a, b.seq is not invoked
\* (and nothing is delivered after the false).
ChainThenOther ==
  res.op = "Chain" =>
    /\ Driven(res.c, res.cons, Elems(First) \o Elems(Second))
    /\ ~res.late
    /\ (res.c.kind = "NthOr" /\ res.c.n < Len(Elems(First))) => ~res.invoked[2]
    /\ (res.c.kind = "Collect" \/ res.c.n >= Len(Elems(First))) => res.invoked[2]

WitChainStoppedInFirst ==
  /\ res.op = "Chain" /\ res.c.kind = "NthOr" /\ res.c.n = 1
  /\ Len(Elems(First)) = 2 /\ Len(Elems(Second)) >= 1 /\ res.cons.found

Pairs(A, B, n, fill) ==
  [j \in 1..n |-> <<IF j <= Len(A) THEN A[j] ELSE fill[1],
                    IF j <= Len(B) THEN B[j] ELSE fill[2]>>]

Max(a, b) == IF a > b THEN a ELSE b

\* C13: Zip(A, B) delivers min(len A, len B) pairs, the i-th being
\* (A[i], B[i]); the surplus of the longer side is never delivered.
ZipLengthLaw ==
  res.op = "Zip" =>
    Driven(res.c, res.cons,
           Pairs(Elems(First), Elems(Second),
                 Min(Len(Elems(First)), Len(Elems(Second))), pl.src.fill))

WitZipUneven ==
  /\ res.op = "Zip" /\ res.c.kind = "Collect"
  /\ Len(Elems(First)) = 3 /\ Len(Elems(Second)) = 2 /\ Len(res.cons.out) = 2

\* C14: Zip2(A, B, fill) delivers max(len A, len B) pairs; where A has run
\* out the first component is fill.First, where B has run out the second is
\* fill.Second; no pair is delivered at an index where both have run out.
Zip2PaddedLaw ==
  res.op = "Zip2" =>
    Driven(res.c, res.cons,
           Pairs(Elems(First), Elems(Second),
                 Max(Len(Elems(First)), Len(Elems(Second))), pl.src.fill))

WitZip2Padded ==
  /\ res.op = "Zip2" /\ res.c.kind = "Collect"
  /\ Len(Elems(First)) = 1 /\ Len(Elems(Second)) = 2
  /\ Len(res.cons.out) = 2 /\ res.cons.out[2][1] = pl.src.fill[1]

\* a producer of iter.Pull that was created and whose seq has not returned
Alive(p) == p.mode \in {"ready", "susp", "hung"}

\* C15: when a traversal of Zip / Zip2 ends - by exhaustion, by the consumer
\* returning false, or by Close() after Next() - both inner pull producers
\* have been stopped.
ZipStopsProducers ==
  /\ res.op \in ZipKinds => ~Alive(res.co1) /\ ~Alive(res.co2)
  /\ (pl.src.kind \in ZipKinds /\ it.done) =>
       /\ co.mode \in {"none", "fin"}
       /\ co.mode = "fin" => ~Alive(co.co1) /\ ~Alive(co.co2)

WitZipClosedAfterNext ==
  /\ pl.src.kind \in ZipKinds /\ last.op = "Close" /\ hist.nTrue = 1
  /\ hist.nFalse = 0 /\ Len(Elems(First)) >= 2 /\ Len(Elems(Second)) >= 2
  /\ co.mode = "fin" /\ co.co1.mode = "fin" /\ co.co2.mode = "fin"

\* the other two ways a traversal ends
WitZipConsumerStopped ==
  /\ res.op \in ZipKinds /\ res.stopped /\ res.co1.mode = "fin"
  /\ Len(Elems(First)) > res.n + 1 /\ Len(Elems(Second)) > res.n + 1

WitZipExhausted ==
  /\ res.op = "Zip" /\ ~res.stopped /\ res.co1.mode = "fin"
  /\ Len(Elems(First)) > Len(Elems(Second))

\* C16: CartesianProduct(A, B) delivers len(A) * len(B) pairs in row-major
\* order, A being the outer loop; it is empty when A or B is empty.
ProductRowMajor ==
  res.op = "CartesianProduct" =>
    LET A == Elems(First)
        B == Elems(Second)
        all == Concat([i \in 1..Len(A) |-> [j \in 1..Len(B) |-> <<A[i], B[j]>>]])
    IN /\ Len(all) = Len(A) * Len(B)
       /\ Driven(res.c, res.cons, all)
       /\ ~res.late

WitProductTwoByTwo ==
  /\ res.op = "CartesianProduct" /\ res.c.kind = "Collect"
  /\ res.cons.out = << <<1, 1>>, <<1, 2>>, <<2, 1>>, <<2, 2>> >>

WitProductEmptySide ==
  /\ res.op = "CartesianProduct" /\ res.c.kind = "Collect"
  /\ Len(Elems(First)) = 2 /\ Elems(Second) = << >> /\ res.cons.out = << >>

\* ------------------------------------ chunking, StepBy and Unique, one call each
\* the iterator handed to the function: a slice of up to MaxLen + 1 elements
\* behind combinators that keep the element type
ShapePipelines ==
  {[src |-> ToIter(s), stages |-> ch] : s \in SlicesUpTo(MaxLen + 1), ch \in ElementChains}

\* the sizes and steps tried: negative, zero and positive
Sizes == (0 - MaxNeg)..MaxN

ChunkFns == {"ChunkSlice", "Chunks", "ChunkList"}

\* make([]V, 0, size) at the start of the seq panics when size is negative
MakePanics(size) == size < 0

\* the elements of one group: ChunkSlice yields slices, Chunks and ChunkList
\* yield iterators (ToIter of the chunk), read here with Collect
GroupElems(fn, g) ==
  IF fn = "ChunkSlice" THEN g ELSE Elems([src |-> g, stages |-> << >>])

\* ChunkSlice(it, size).Collect(), Chunks(it, size).Collect() and
\* ChunkList(it, size) = Chunks(it, size).Collect(); for ChunkList flat is
\* Flatten(list...).Collect()
ChunkOp(q0, fn, size) ==
  Bind(With(q0, IF fn = "ChunkSlice" THEN ChunkSlice(size) ELSE Chunks(size)), LAMBDA q :
    IF MakePanics(size)
    THEN [op |-> fn, n |-> size, panic |-> TRUE, at |-> "seq", fetched |-> 0,
          groups |-> << >>, flat |-> << >>]
    ELSE Bind(CollectOp(q), LAMBDA t :
         Bind(ConsOf(q, t).out, LAMBDA list :
           [op |-> fn, n |-> size, panic |-> FALSE, at |-> "", fetched |-> t.fetched,
            groups |-> [j \in 1..Len(list) |-> GroupElems(fn, list[j])],
            flat |-> IF fn = "ChunkList"
                     THEN FlattenOp([j \in 1..Len(list) |->
                                       [src |-> list[j], stages |-> << >>]],
                                    Collect).cons.out
                     ELSE << >>])))

\* variant of StepBy without the check: a step that is not positive counts as 1
StepByCallClamps(q0, n) ==
  [panic |-> FALSE, q |-> With(q0, StepBy(IF n <= 0 THEN 1 ELSE n))]

\* it.StepBy(n): panics when n <= 0, otherwise returns the new iterator
StepByCall(q0, n) ==
  IF n <= 0 THEN [panic |-> TRUE, q |-> q0]
  ELSE [panic |-> FALSE, q |-> With(q0, StepBy(n))]

\* it.StepBy(n).Collect()
StepByOp(q0, n) ==
  Bind(StepByCall(q0, n), LAMBDA r :
    IF r.panic
    THEN [op |-> "StepBy", n |-> n, panic |-> TRUE, at |-> "call", fetched |-> 0,
          out |-> << >>]
    ELSE Bind(CollectOp(r.q), LAMBDA t :
           [op |-> "StepBy", n |-> n, panic |-> FALSE, at |-> "", fetched |-> t.fetched,
            out |-> ConsOf(r.q, t).out]))

\* variant of a second traversal in which Unique goes on with the seen of
\* the first one (t1)
RetraverseKeepsSeen(q, c, t1) ==
  Run(q, c, 0, 1, [InitT(q) EXCEPT !.s[Len(q.stages)] = t1.s[Len(q.stages)]])

\* seq(yield) called again on the same iterator: every closure variable is
\* declared inside seq, so nothing of the first traversal t1 is left
Retraverse(q, c, t1) == Run(q, c, 0, 1, InitT(q))

\* u := it.Unique(keyFunc); a first traversal of u by c1, then u.Collect()
UniqueOp(q0, keyFunc, c1) ==
  Bind(With(q0, Unique(keyFunc)), LAMBDA q :
  Bind(Traverse(q, c1), LAMBDA t1 :
  Bind(Retraverse(q, Collect, t1), LAMBDA t2 :
    [op |-> "Unique", n |-> 0, keyFunc |-> keyFunc, c |-> c1, panic |-> FALSE,
     first |-> ConsOf(q, t1), out |-> ConsOf(q, t2).out])))

InitShape ==
  /\ pl \in ShapePipelines
  /\ it = NewIter
  /\ co = NoPull
  /\ hist = NoHist
  /\ last = NoCall
  /\ res = NoResult

\* ChunkSlice / Chunks / ChunkList with a size
DoChunk ==
  /\ res.op = "none"
  /\ \E fn \in ChunkFns : \E size \in Sizes : res' = ChunkOp(pl, fn, size)
  /\ UNCHANGED <<pl, it, co, hist, last>>

\* it.StepBy(n).Collect()
DoStepBy ==
  /\ res.op = "none"
  /\ \E n \in Sizes : res' = StepByOp(pl, n)
  /\ UNCHANGED <<pl, it, co, hist, last>>

\* it.Unique(keyFunc), traversed twice
DoUnique ==
  /\ res.op = "none"
  /\ \E keyFunc \in KeyFuncs : \E c1 \in {CountC, Collect} :
       res' = UniqueOp(pl, keyFunc, c1)
  /\ UNCHANGED <<pl, it, co, hist, last>>

NextShape == DoChunk \/ DoStepBy \/ DoUnique

SpecShape == InitShape /\ [][NextShape]_vars

\* the elements of the iterator the function was handed
Given == Elems(pl)

\* C17: for k > 0 ChunkSlice, Chunks and ChunkList yield ceil(len(S)/k)
\* consecutive groups of S, each of size k except possibly a shorter last
\* one, none empty; Flatten(ChunkList(S, k)...).Collect() equals S.
ChunkingPartitions ==
  (res.op \in ChunkFns /\ res.n > 0) =>
    /\ ~res.panic
    /\ Len(res.groups) = (Len(Given) + res.n - 1) \div res.n
    /\ \A j \in 1..Len(res.groups) :
         /\ Len(res.groups[j]) >= 1
         /\ Len(res.groups[j]) <= res.n
         /\ j < Len(res.groups) => Len(res.groups[j]) = res.n
    /\ Concat(res.groups) = Given
    /\ res.op = "ChunkList" => res.flat = Given

WitChunkListShortLast ==
  /\ res.op = "ChunkList" /\ res.n = 2 /\ Len(Given) = 3
  /\ Len(res.groups) = 2 /\ Len(res.groups[2]) = 1 /\ res.flat = Given

\* C18: ChunkSlice(S, size).Collect(), Chunks(S, size).Collect() and
\* ChunkList(S, size) panic for every size <= 0 and return no result.
ChunkSizeChecked ==
  (res.op \in ChunkFns /\ res.n <= 0) => res.panic

\* size 0: no panic, every element in one chunk
WitZeroSizeGiantChunk ==
  /\ res.op = "ChunkSlice" /\ res.n = 0 /\ ~res.panic
  /\ Len(Given) = 3 /\ res.groups = <<Given>>

\* C19: StepBy(n) panics for n <= 0 at the StepBy call, before any element
\* of the source is consumed; for n > 0 it yields the elements at 0-based
\* positions 0, n, 2n, ... in order.
StepByLaw ==
  res.op = "StepBy" =>
    IF res.n <= 0
    THEN res.panic /\ res.at = "call" /\ res.fetched = 0 /\ res.out = << >>
    ELSE /\ ~res.panic
         /\ res.out = [j \in 1..((Len(Given) + res.n - 1) \div res.n) |->
                         Given[(j - 1) * res.n + 1]]

WitStepByTwo ==
  /\ res.op = "StepBy" /\ res.n = 2 /\ Len(Given) = 4
  /\ res.out = <<Given[1], Given[3]>>

WitStepByZeroPanics ==
  /\ res.op = "StepBy" /\ res.n = 0 /\ res.panic /\ Len(Given) >= 1

\* the first element of S for each key, in the order of S
FirstPerKey(S, keyFunc) ==
  LET keep == {j \in 1..Len(S) :
                 \A i \in 1..(j - 1) : KeyOf(keyFunc, S[i]) # KeyOf(keyFunc, S[j])}
      RECURSIVE pick(_)
      pick(j) == IF j > Len(S) THEN << >>
                 ELSE IF j \in keep THEN <<S[j]>> \o pick(j + 1) ELSE pick(j + 1)
  IN pick(1)

\* C20: Unique(keyFunc) keeps the first element of each key in source order,
\* with fresh state per traversal: a traversal (Count or Collect) followed
\* by Collect on the same iterator sees the same elements both times.
UniqueFirstPerKey ==
  res.op = "Unique" =>
    /\ res.out = FirstPerKey(Given, res.keyFunc)
    /\ res.c.kind = "Count" => res.first.i = Len(res.out)
    /\ res.c.kind = "Collect" => res.first.out = res.out

WitUniqueCountThenCollect ==
  /\ res.op = "Unique" /\ res.keyFunc = "self" /\ res.c.kind = "Count"
  /\ Len(Given) = 3 /\ Given[3] = Given[1] /\ Len(res.out) = 2 /\ res.first.i = 2

\* ------------------------------- Union, Intersection, Difference and Cycle
\* the arguments of it.Union(other, keyFunc) and its relatives
SetArgs(fn, p1, p2, keyFunc) ==
  [kind |-> fn, slice |-> << >>, inf |-> FALSE, p1 |-> p1, p2 |-> p2,
   keyFunc |-> keyFunc]

\* it.Union(other, keyFunc): seen is made by the call and captured by the
\* predicate of the Filter behind it.Chain(other)
UnionNew(a, b, keyFunc) ==
  [q |-> With(With(a, Chain(b.src.slice)), UnionFilter(keyFunc)), seen |-> {}]

\* a traversal of the iterator Union returned: the predicate goes on with
\* the seen it captured
UnionTraverse(u, c) ==
  Run(u.q, c, 0, 1, [InitT(u.q) EXCEPT !.s[Len(u.q.stages)] = u.seen])

\* u := a.Union(b, keyFunc); a first traversal of u by c1, then u.Collect()
UnionOp(a, b, keyFunc, c1) ==
  Bind(UnionNew(a, b, keyFunc), LAMBDA u :
  Bind(UnionTraverse(u, c1), LAMBDA t1 :
  Bind(UnionTraverse([u EXCEPT !.seen = t1.s[Len(u.q.stages)]], Collect), LAMBDA t2 :
    [op |-> "Union", n |-> 0, keyFunc |-> keyFunc, c |-> c1,
     first |-> ConsOf(u.q, t1), out |-> ConsOf(u.q, t2).out,
     hung |-> t1.hung \/ t2.hung])))

\* other.seq(func(v) { seen[keyFunc(v)] = struct{}{}; return true }): the
\* keys of other
KeysOf(b, keyFunc) ==
  Bind(Traverse(b, Collect), LAMBDA t :
    [keys |-> {KeyOf(keyFunc, ConsOf(b, t).out[j]) : j \in 1..Len(ConsOf(b, t).out)},
     fetched |-> t.fetched])

\* it.Intersection(other, keyFunc) / it.Difference(other, keyFunc): other is
\* traversed by the call, it is not; pulled counts the elements the call
\* fetched from the sources of it and other
SetFilterNew(fn, a, b, keyFunc) ==
  Bind(KeysOf(b, keyFunc), LAMBDA r :
    [q |-> With(a, KeyFilter(fn, keyFunc, r.keys)), pulled |-> <<0, r.fetched>>])

\* a.Intersection(b, keyFunc).Collect() / a.Difference(b, keyFunc).Collect()
SetFilterOp(fn, a, b, keyFunc) ==
  Bind(SetFilterNew(fn, a, b, keyFunc), LAMBDA r :
    [op |-> fn, n |-> 0, keyFunc |-> keyFunc, pulled |-> r.pulled,
     out |-> ConsOf(r.q, CollectOp(r.q)).out])

\* it.Cycle(): xs := it.Collect() by the call
CycleNew(a) ==
  Bind(CollectOp(a), LAMBDA t :
    [q |-> [src |-> Cycle(ConsOf(a, t).out), stages |-> << >>],
     pulled |-> <<t.fetched, 0>>])

\* a.Cycle().Take(n).Collect()
CycleTakeOp(a, n) ==
  Bind(With(CycleNew(a).q, Take(n)), LAMBDA q :
  Bind(CollectOp(q), LAMBDA t :
    [op |-> "Cycle", n |-> n, out |-> ConsOf(q, t).out, hung |-> t.hung]))

\* the functions that return a new iterator: those that only build it, and
\* those that traverse an argument first
LazyFns ==
  {"Map", "Filter", "Take", "Drop", "TakeWhile", "DropWhile", "Chain", "Unique",
   "Union", "StepBy", "Zip", "Zip2", "Flatten", "ChunkSlice", "Chunks"}
EagerFns ==
  {"Reverse", "Sort", "Shuffle", "Cycle", "Partition", "Intersection", "Difference",
   "CartesianProduct"}

\* variant in which Union reads other when it is called
ConstructPullsUnionEager(fn, a, b, keyFunc) ==
  IF fn = "Union" THEN <<0, CollectOp(b).fetched>> ELSE <<0, 0>>

\* the elements fetched from the sources of a and b by the call fn(a, b)
\* itself, before anything traverses the iterator it returns
ConstructPulls(fn, a, b, keyFunc) ==
  CASE fn \in {"Intersection", "Difference"} -> SetFilterNew(fn, a, b, keyFunc).pulled
    [] fn = "CartesianProduct" -> <<0, CollectOp(b).fetched>>
    [] fn = "Cycle" -> CycleNew(a).pulled
    [] fn \in {"Reverse", "Sort", "Shuffle", "Partition"} -> <<CollectOp(a).fetched, 0>>
    [] OTHER -> <<0, 0>>

InitSets ==
  /\ pl \in {[src |-> SetArgs(fn, a, b, k), stages |-> << >>] :
               fn \in LazyFns \cup EagerFns,
               a \in ElementPipelines, b \in SlicePipelines, k \in KeyFuncs}
  /\ it = NewIter
  /\ co = NoPull
  /\ hist = NoHist
  /\ last = NoCall
  /\ res = NoResult

\* first.Union(second, keyFunc), traversed twice
DoUnion ==
  /\ res.op = "none" /\ pl.src.kind = "Union"
  /\ \E c1 \in {CountC, Collect} : res' = UnionOp(First, Second, pl.src.keyFunc, c1)
  /\ UNCHANGED <<pl, it, co, hist, last>>

\* first.Intersection(second, keyFunc) / first.Difference(second, keyFunc),
\* collected
DoSetFilter ==
  /\ res.op = "none" /\ pl.src.kind \in {"Intersection", "Difference"}
  /\ res' = SetFilterOp(pl.src.kind, First, Second, pl.src.keyFunc)
  /\ UNCHANGED <<pl, it, co, hist, last>>

\* first.Cycle().Take(n).Collect()
DoCycleTake ==
  /\ res.op = "none" /\ pl.src.kind = "Cycle"
  /\ \E n \in Counts : res' = CycleTakeOp(First, n)
  /\ UNCHANGED <<pl, it, co, hist, last>>

\* the call that builds the iterator, nothing traversed yet
DoConstruct ==
  /\ res.op = "none"
  /\ res' = [op |-> "Construct", n |-> 0, fn |-> pl.src.kind,
             pulled |-> ConstructPulls(pl.src.kind, First, Second, pl.src.keyFunc)]
  /\ UNCHANGED <<pl, it, co, hist, last>>

NextSets == DoUnion \/ DoSetFilter \/ DoCycleTake \/ DoConstruct

SpecSets == InitSets /\ [][NextSets]_vars

\* C21: A.Union(B, keyFn).Collect() is A ++ B without the elements whose key
\* occurred earlier in A ++ B: first occurrences in A-then-B order, no two
\* results with the same key.
UnionFirstOccurrences ==
  (res.op = "Union" /\ res.c.kind = "Collect") =>
    /\ res.first.out = FirstPerKey(Elems(First) \o Elems(Second), res.keyFunc)
    /\ \A i \in 1..Len(res.first.out) : \A j \in 1..Len(res.first.out) :
         i # j => KeyOf(res.keyFunc, res.first.out[i]) # KeyOf(res.keyFunc, res.first.out[j])

WitUnionDedups ==
  /\ res.op = "Union" /\ res.c.kind = "Collect" /\ res.keyFunc = "self"
  /\ Elems(First) = <<2, 2>> /\ Elems(Second) = <<1, 2>> /\ res.first.out = <<2, 1>>

\* C27: the iterator returned by A.Union(B, keyFn) traversed twice (Count()
\* or Collect(), then Collect()) yields the same elements both times.
UnionRetraversable ==
  res.op = "Union" =>
    /\ res.out = FirstPerKey(Elems(First) \o Elems(Second), res.keyFunc)
    /\ res.c.kind = "Collect" => res.out = res.first.out
    /\ res.c.kind = "Count" => res.first.i = Len(res.out)

\* the second traversal comes out empty
WitUnionSecondEmpty ==
  /\ res.op = "Union" /\ res.c.kind = "Count" /\ res.first.i = 2 /\ res.out = << >>

\* the keys among the elements of B
KeysAmong(B, keyFunc) == {KeyOf(keyFunc, B[j]) : j \in 1..Len(B)}

\* the subsequence of A of the elements whose key is (in = TRUE) / is not
\* among keys
ByKey(A, keyFunc, keys, in) ==
  LET RECURSIVE pick(_)
      pick(j) == IF j > Len(A) THEN << >>
                 ELSE IF (KeyOf(keyFunc, A[j]) \in keys) = in
                 THEN <<A[j]>> \o pick(j + 1) ELSE pick(j + 1)
  IN pick(1)

\* C22: A.Intersection(B, k).Collect() is the subsequence of A whose keys
\* occur among the keys of B, A.Difference(B, k).Collect() the subsequence of
\* the others; B is read in full by the call, before any element of A.
SetFiltersPartition ==
  res.op \in {"Intersection", "Difference"} =>
    /\ res.out = ByKey(Elems(First), res.keyFunc,
                       KeysAmong(Elems(Second), res.keyFunc), res.op = "Intersection")
    /\ res.pulled = <<0, Len(Elems(Second))>>

WitIntersectionKeepsDuplicates ==
  /\ res.op = "Intersection" /\ res.keyFunc = "self"
  /\ Elems(First) = <<2, 2, 1>> /\ Elems(Second) = <<2>> /\ res.out = <<2, 2>>

WitDifferenceKeepsRest ==
  /\ res.op = "Difference" /\ res.keyFunc = "self"
  /\ Elems(First) = <<2, 2, 1>> /\ Elems(Second) = <<2>> /\ res.out = <<1>>

\* C30: S.Cycle().Take(n).Collect() terminates for every finite S and every
\* n >= 0; it returns S[i mod len(S)] for i < n, and the empty slice for an
\* empty S.
CycleTakeTerminates ==
  res.op = "Cycle" =>
    /\ ~res.hung
    /\ res.out = IF Elems(First) = << >> THEN << >>
                 ELSE [i \in 1..res.n |->
                         Elems(First)[((i - 1) % Len(Elems(First))) + 1]]

\* for a source with elements the law holds
CycleTakeOfNonEmpty ==
  (res.op = "Cycle" /\ Elems(First) # << >>) =>
    /\ ~res.hung
    /\ res.out = [i \in 1..res.n |-> Elems(First)[((i - 1) % Len(Elems(First))) + 1]]

WitCycleOfEmptyHangs ==
  /\ res.op = "Cycle" /\ Elems(First) = << >> /\ res.n = 0 /\ res.hung

WitEagerDifferenceBuilt ==
  /\ res.op = "Construct" /\ res.fn = "Difference" /\ res.pulled = <<0, 2>>

\* C29: Zip(A, B) asks B for its next element only after A has supplied one:
\* when A is exhausted at index k, the source of B has not been asked for its
\* element k.
ZipPullsSecondOnlyToPair ==
  (res.op = "Zip" /\ Len(Elems(First)) < Len(Elems(Second))) =>
    res.co2.t.fetched <= Len(Elems(First))

\* B has lost the element A had no partner for
WitZipTookUnpaired ==
  /\ res.op = "Zip" /\ res.c.kind = "Collect" /\ Elems(First) = <<1>>
  /\ Len(Elems(Second)) = 2 /\ res.co2.t.fetched = 2

\* ------------------------------------ sources over a reader, with a context
\* what one read of the underlying source gives: a record / value, a parse
\* error (tabular sources only), or the end (io.EOF, closed channel, !ok)
Rec(v) == [kind |-> "rec", v |-> v]
ParseError == [kind |-> "err", v |-> 0]
EndOfInput == [kind |-> "eof", v |-> 0]

CSVKinds == {"FromCSV", "FromCSVWithContext", "FromCSVWithHeadersContext"}
CtxKinds ==
  {"FromChannelWithContext", "FromReaderWithContext", "FromFuncWithContext",
   "GenerateWithContext", "FromCSVWithContext", "FromCSVWithHeadersContext"}

\* the inputs: what the reads will give in turn, the end ever after
RecordsUpTo(n) == UNION {[1..m -> {Rec(v) : v \in Vals}] : m \in 0..n}
ReadsUpTo(n) ==
  UNION {[1..m -> {Rec(v) : v \in Vals} \cup {ParseError, EndOfInput}] : m \in 0..n}
StreamSrc(kind, reads) ==
  [kind |-> kind, slice |-> reads, inf |-> kind = "GenerateWithContext"]

\* the pos-th read
ReadAt(src, pos) ==
  IF src.inf THEN Rec(GenVal(pos))
  ELSE IF pos <= Len(src.slice) THEN src.slice[pos] ELSE EndOfInput

\* the seq at the top of its loop (mode "loop"), past Scan() and before the
\* select ("scanned"), inside the branch the select took ("picked"), returned
\* ("fin"); pos is the next read, val the value already received
Fin(c) == [c EXCEPT !.mode = "fin", !.val = << >>]

\* the iterator as the function returns it: the ...Headers functions read
\* the header row first and return nil on any error
StreamNew(src) ==
  IF src.kind = "FromCSVWithHeadersContext"
  THEN IF ReadAt(src, 1).kind = "rec"
       THEN [mode |-> "loop", lvl |-> 0, pos |-> 2, t |-> << >>, val |-> << >>]
       ELSE [mode |-> "fin", lvl |-> 0, pos |-> 2, t |-> << >>, val |-> << >>]
  ELSE [mode |-> "loop", lvl |-> 0, pos |-> 1, t |-> << >>, val |-> << >>]

\* The top of the loop.  FromChannelWithContext: select between ctx.Done()
\* and the receive, one of the ready cases being chosen (a channel with a
\* value or closed is ready).  FromReaderWithContext: scanner.Scan().
\* FromCSV: nothing.  The others: select with ctx.Done() and default.
StreamLoop(src, c, done) ==
  CASE src.kind = "FromChannelWithContext" ->
         (IF done THEN {Fin(c)} ELSE {})
           \cup {IF ReadAt(src, c.pos).kind = "eof" THEN Fin(c)
                 ELSE [c EXCEPT !.mode = "picked", !.pos = @ + 1,
                                !.val = <<ReadAt(src, c.pos).v>>]}
    [] src.kind = "FromReaderWithContext" ->
         {IF ReadAt(src, c.pos).kind = "eof" THEN Fin(c)
          ELSE [c EXCEPT !.mode = "scanned", !.pos = @ + 1,
                         !.val = <<ReadAt(src, c.pos).v>>]}
    [] src.kind = "FromCSV" -> {[c EXCEPT !.mode = "picked"]}
    [] OTHER -> {IF done THEN Fin(c) ELSE [c EXCEPT !.mode = "picked"]}

\* the select of FromReaderWithContext, after Scan()
StreamSelect(c, done) == IF done THEN Fin(c) ELSE [c EXCEPT !.mode = "picked"]

\* variant of the branch that gives up at a malformed record
StreamBodyStopsAtError(src, c) ==
  IF c.val # << >>
  THEN [co |-> [c EXCEPT !.mode = "loop", !.val = << >>], yield |-> c.val]
  ELSE IF ReadAt(src, c.pos).kind = "rec"
  THEN [co |-> [c EXCEPT !.mode = "loop", !.pos = @ + 1],
        yield |-> <<ReadAt(src, c.pos).v>>]
  ELSE [co |-> Fin(c), yield |-> << >>]

\* The branch taken: the value received is handed to yield, or the source
\* is read (fn(), r.Read()): the end returns, a malformed record is skipped
\* (continue), a record is handed to yield.  The consumer goes on.
StreamBody(src, c) ==
  IF c.val # << >>
  THEN [co |-> [c EXCEPT !.mode = "loop", !.val = << >>], yield |-> c.val]
  ELSE CASE ReadAt(src, c.pos).kind = "eof" -> [co |-> Fin(c), yield |-> << >>]
         [] ReadAt(src, c.pos).kind = "err" ->
              [co |-> [c EXCEPT !.mode = "loop", !.pos = @ + 1], yield |-> << >>]
         [] ReadAt(src, c.pos).kind = "rec" ->
              [co |-> [c EXCEPT !.mode = "loop", !.pos = @ + 1],
               yield |-> <<ReadAt(src, c.pos).v>>]

\* hist.done: ctx.Done() has fired; hist.after: elements handed to the
\* consumer since; res.out: everything handed to the consumer
InitStream ==
  /\ pl \in {[src |-> StreamSrc(kind, reads), stages |-> << >>] :
               kind \in CtxKinds \cup {"FromCSV"}, reads \in ReadsUpTo(MaxLen + 1)}
  /\ pl.src.kind \notin CSVKinds => pl.src.slice \in RecordsUpTo(MaxLen + 1)
  /\ it = NewIter
  /\ co = StreamNew(pl.src)
  /\ hist = [done |-> FALSE, after |-> 0]
  /\ last = NoCall
  /\ res = [op |-> "Collect", n |-> 0, out |-> << >>]

\* cancel(): the context is done from now on
Cancel ==
  /\ pl.src.kind \in CtxKinds /\ ~hist.done
  /\ hist' = [hist EXCEPT !.done = TRUE]
  /\ UNCHANGED <<pl, it, co, last, res>>

StreamLoopStep ==
  /\ co.mode = "loop"
  /\ Len(res.out) <= MaxLen + 1
  /\ co' \in StreamLoop(pl.src, co, hist.done)
  /\ UNCHANGED <<pl, it, hist, last, res>>

StreamSelectStep ==
  /\ co.mode = "scanned"
  /\ co' = StreamSelect(co, hist.done)
  /\ UNCHANGED <<pl, it, hist, last, res>>

StreamBodyStep ==
  /\ co.mode = "picked"
  /\ \E r \in {StreamBody(pl.src, co)} :
       /\ co' = r.co
       /\ res' = [res EXCEPT !.out = @ \o r.yield]
       /\ hist' = [hist EXCEPT !.after = IF hist.done THEN @ + Len(r.yield) ELSE @]
  /\ UNCHANGED <<pl, it, last>>

NextStream == Cancel \/ StreamLoopStep \/ StreamSelectStep \/ StreamBodyStep

SpecStream == InitStream /\ [][NextStream]_vars

\* C23: once the context is done, a traversal of a context-aware source
\* hands over at most one further element, even when the underlying source
\* could still supply more.
CancellationBounded ==
  pl.src.kind \in CtxKinds => hist.after <= 1

\* the sources that test ctx.Done() with a default are bounded
CancellationBoundedWithDefault ==
  (pl.src.kind \in CtxKinds /\ pl.src.kind # "FromChannelWithContext") =>
    hist.after <= 1

WitChannelDeliversAfterCancel ==
  /\ pl.src.kind = "FromChannelWithContext" /\ hist.after = 3 /\ co.mode = "fin"

\* the records among reads, up to the first end of input
RECURSIVE RecordsBeforeEnd(_)
RecordsBeforeEnd(reads) ==
  IF reads = << >> \/ Head(reads).kind = "eof" THEN << >>
  ELSE IF Head(reads).kind = "rec" THEN <<Head(reads).v>> \o RecordsBeforeEnd(Tail(reads))
  ELSE RecordsBeforeEnd(Tail(reads))

\* C24: for any finite sequence of reader results FromCSV hands over exactly
\* the records read before the end of input, in order, skips every read
\* that gave a parse error, and ends at the end of input.
CSVSkipsMalformed ==
  pl.src.kind = "FromCSV" =>
    /\ co.mode = "fin" => res.out = RecordsBeforeEnd(pl.src.slice)
    /\ Len(res.out) <= Len(RecordsBeforeEnd(pl.src.slice))
    /\ \A j \in 1..Len(res.out) : res.out[j] = RecordsBeforeEnd(pl.src.slice)[j]

WitCSVSkippedOne ==
  /\ pl.src.kind = "FromCSV" /\ co.mode = "fin"
  /\ pl.src.slice = <<Rec(1), ParseError, Rec(2)>> /\ res.out = <<1, 2>>

\* --------------------------- the cursor next to the terminal operations
\* variant of Collect that starts the cursor afresh
CollectResetsCursor(q, i, c) ==
  [it |-> NewIter, co |-> NoPull, out |-> ConsOf(q, CollectOp(q)).out]

\* it.Collect() on an iterator whose cursor is (i, c): it.seq is run with
\* the callback of Collect; curr, done, pull and stop are not touched
CollectBeside(q, i, c) ==
  [it |-> i, co |-> c, out |-> ConsOf(q, CollectOp(q)).out]

ReverseOf(xs) == [j \in 1..Len(xs) |-> xs[Len(xs) + 1 - j]]

\* Last(): it.Reverse().First(); Reverse collects it and returns ToIter of
\* the reversed slice, whose cursor First() uses
LastOp(q) ==
  FirstOp([src |-> ToIter(ReverseOf(ConsOf(q, CollectOp(q)).out)), stages |-> << >>],
          NewIter, NoPull)

InitTerminal ==
  /\ pl \in ElementPipelines
  /\ it = NewIter
  /\ co = NoPull
  /\ hist = NoHist
  /\ last = NoCall
  /\ res = NoResult

\* it.Collect() between the calls on the cursor
DoCollectBeside ==
  /\ res.op = "none"
  /\ \E r \in {CollectBeside(pl, it, co)} :
       /\ it' = r.it
       /\ co' = r.co
       /\ res' = [op |-> "Collect", n |-> hist.nTrue, out |-> r.out]
  /\ UNCHANGED <<pl, hist, last>>

\* it.First() on an iterator not stepped before; co is the producer the
\* call made
DoFirst ==
  /\ res.op = "none" /\ it = NewIter /\ last = NoCall
  /\ \E r \in {FirstOp(pl, it, co)} :
       /\ it' = r.it
       /\ co' = r.co
       /\ res' = [op |-> "First", n |-> 0, val |-> r.val, panic |-> r.panic, co |-> r.co]
  /\ UNCHANGED <<pl, hist, last>>

\* it.Last() / it.Nth(n): the cursor used is that of the iterator Reverse /
\* Drop returned, which the caller never sees
DoLast ==
  /\ res.op = "none" /\ it = NewIter /\ last = NoCall
  /\ \E r \in {LastOp(pl)} :
       res' = [op |-> "Last", n |-> 0, val |-> r.val, panic |-> r.panic, co |-> r.co]
  /\ UNCHANGED <<pl, it, co, hist, last>>

DoNthFresh ==
  /\ res.op = "none" /\ it = NewIter /\ last = NoCall
  /\ \E n \in Counts : \E r \in {NthOp(pl, n)} :
       res' = [op |-> "Nth", n |-> n, val |-> r.val, panic |-> r.panic, co |-> r.co]
  /\ UNCHANGED <<pl, it, co, hist, last>>

\* Next(), Current() and Close() by the caller, as long as First() has not
\* moved the cursor behind the caller's back
CursorStep ==
  /\ res.op \in {"none", "Collect"}
  /\ (Next \/ Current \/ Close)

NextTerminal == CursorStep \/ DoCollectBeside \/ DoFirst \/ DoLast \/ DoNthFresh

SpecTerminal == InitTerminal /\ [][NextTerminal]_vars

WitCurrentAfterCollect ==
  /\ res.op = "Collect" /\ res.n = 1 /\ Len(res.out) >= 2
  /\ last.op = "Current" /\ hist.nTrue = 1 /\ last.val = <<res.out[1]>>

\* C28: when First(), Last() or Nth(n) returns or panics, no pull producer
\* the call created is still live.
TerminalsReleaseProducer ==
  res.op \in {"First", "Last", "Nth"} => ~Alive(res.co)

\* First() returned an element and left the producer suspended in yield
WitFirstLeavesProducer ==
  /\ res.op = "First" /\ ~res.panic /\ res.co.mode = "susp"

\* on a sequence that is too short the producer is stopped by Next()
WitNthPanicsReleased ==
  /\ res.op = "Nth" /\ res.panic /\ res.co.mode = "fin" /\ res.n = 2

====
